---- MODULE Spec2Model ----
(***************************************************************************)
(* EduForge AI front end: the generation pipeline of App (content call,   *)
(* video call, reset), the progress-simulation effect with its interval   *)
(* timer, the quiz and the flashcards, as written in                      *)
(* frontend/src/App.js (the first App component of the file).             *)
(*                                                                         *)
(* Notifications (toast) are output: the variable toast holds the one the  *)
(* latest step raised.                                                     *)
(*                                                                         *)
(* JavaScript null is modelled by the empty sequence for object-valued    *)
(* state (generatedContent, quizScore) and by 0 for videoUrl; an object   *)
(* URL is a positive integer, the n-th URL made by URL.createObjectURL.   *)
(***************************************************************************)
EXTENDS Integers, Sequences, FiniteSets, TLC

\* ---------------------------------------------------------------- bounds
MaxUrls == 2
MaxQuizLen == 1
MaxCards == 1
MaxContentId == 2
MaxTotal == 40
MaxMessages == 3
MaxQuestions == 3

\* ------------------------------------------------------ program constants
ProgressOnStart == 20
ProgressCeiling == 80
ProgressDone == 100
PassThreshold == 70

\* Math.random() * 10 lies in [0, 10); the model draws it from these values.
Increments == {0, 9}

\* Indexes of the options of a question.
OptionIndexes == {0, 1}

Topics == {"Photosynthesis"}
Levels == {"beginner"}
ContentIds == 1..MaxContentId

NoContent == << >>
NoScore == << >>
NoUrl == 0
NoId == <<"none">>
EmptyAnswers == [k \in {} |-> 0]

VARIABLES
  formData, isGenerating, generatedContent, currentStep, quizAnswers,
  showQuizResults, flippedCards, videoUrl, isGeneratingVideo, videoProgress,
  quizScore, canRetakeQuiz,
  contentCalls,   \* requests of axios.post(generate_content) not yet settled
  videoCalls,     \* content ids of axios.post(generate_video) not yet settled
  nextUrl,        \* number of object URLs created so far
  revokes,        \* per object URL, the number of URL.revokeObjectURL calls
  interval,       \* TRUE while a setInterval of the progress effect is armed
  effectPending,  \* TRUE while the effect of the last render has not run yet
  toast,          \* the notification raised by the latest step, or "none"
  isOpen, isMinimized, messages, inputMessage, isLoading,
  sessionId,      \* state of ChatBot
  chatCalls       \* requests of axios.post(chat) not yet settled

vars == << formData, isGenerating, generatedContent, currentStep, quizAnswers,
           showQuizResults, flippedCards, videoUrl, isGeneratingVideo,
           videoProgress, quizScore, canRetakeQuiz, contentCalls, videoCalls,
           nextUrl, revokes, interval, effectPending, toast, isOpen,
           isMinimized, messages, inputMessage, isLoading, sessionId, chatCalls >>

appState == << formData, isGenerating, generatedContent, currentStep,
               quizAnswers, showQuizResults, flippedCards, videoUrl,
               isGeneratingVideo, videoProgress, quizScore, canRetakeQuiz >>
quizVars == << quizAnswers, showQuizResults, quizScore, canRetakeQuiz >>
serviceVars == << contentCalls, videoCalls >>
urlVars == << nextUrl, revokes >>
chatVars == << isOpen, isMinimized, messages, inputMessage, isLoading,
              sessionId, chatCalls >>
chatRest == << isOpen, isMinimized, inputMessage, isLoading, sessionId,
              chatCalls >>

\* ------------------------------------------------------------- helpers
WelcomeMessage == [role |-> "assistant", content |-> "welcome", error |-> FALSE]

\* The ChatBot effect on [isOpen, currentTopic], run again when the topic of
\* the generated content changes: the welcome message when the chat is open
\* and holds no message.
welcomeEffect ==
  messages' = IF isOpen /\ Len(messages) = 0
                THEN << WelcomeMessage >>
                ELSE messages

Min(a, b) == IF a < b THEN a ELSE b

RemoveAt(s, i) == [j \in 1..(Len(s) - 1) |-> IF j < i THEN s[j] ELSE s[j + 1]]

\* The quiz and the flashcards a content-service response carries.
Quiz(n, withIds) ==
  [i \in 1..n |-> [id |-> IF withIds THEN <<"id", i>> ELSE NoId,
                   correct_answer |-> i % Cardinality(OptionIndexes)]]

Flashcards(withIds) ==
  [i \in 1..MaxCards |-> [id |-> IF withIds THEN <<"id", i>> ELSE NoId]]

\* question.id || `q_${qIndex}`  (qIndex counts from 0)
QuestionKey(question, qIndex) ==
  IF question.id # NoId THEN question.id ELSE <<"q", qIndex>>

\* card.id || `card_${index}`
CardKey(card, index) ==
  IF card.id # NoId THEN card.id ELSE <<"card", index>>

HasContent == generatedContent # NoContent
Content == generatedContent[1]

\* useEffect(..., [isGeneratingVideo, videoProgress]): the body arms an
\* interval exactly under this condition, the cleanup clears it.
EffectArms == isGeneratingVideo /\ videoProgress < ProgressCeiling

\* React runs the pending effect (cleanup, then body) before it renders the
\* next update.
FlushedInterval == IF effectPending THEN EffectArms ELSE interval

\* What every state update does to the effect: the pending effect is run
\* first, and the new render schedules the effect again when a dependency
\* changed.
Rendered ==
  /\ interval' = FlushedInterval
  /\ effectPending' =
       (<<isGeneratingVideo', videoProgress'>> # <<isGeneratingVideo, videoProgress>>)

\* The Generate button without the isGenerating test.
GenerateButtonEnabled_ignoresGenerating ==
  /\ ~HasContent
  /\ formData.topic # ""
  /\ formData.learner_level # ""

\* disabled={isGenerating || !formData.topic || !formData.learner_level},
\* rendered in the !generatedContent branch
GenerateButtonEnabled ==
  /\ ~HasContent
  /\ ~isGenerating
  /\ formData.topic # ""
  /\ formData.learner_level # ""

\* ---------------------------------------------------------------- Init
Init ==
  /\ formData = [topic |-> "", learner_level |-> ""]
  /\ isGenerating = FALSE
  /\ generatedContent = NoContent
  /\ currentStep = 0
  /\ quizAnswers = EmptyAnswers
  /\ showQuizResults = FALSE
  /\ flippedCards = {}
  /\ videoUrl = NoUrl
  /\ isGeneratingVideo = FALSE
  /\ videoProgress = 0
  /\ quizScore = NoScore
  /\ canRetakeQuiz = FALSE
  /\ contentCalls = << >>
  /\ videoCalls = << >>
  /\ nextUrl = 0
  /\ revokes = [u \in {} |-> 0]
  /\ interval = FALSE
  /\ effectPending = FALSE
  /\ toast = "none"
  /\ isOpen = FALSE
  /\ isMinimized = FALSE
  /\ messages = << >>
  /\ inputMessage = ""
  /\ isLoading = FALSE
  /\ sessionId = 1
  /\ chatCalls = << >>

\* ------------------------------------------------------------- actions
\* Each function of App is a definition under its own name; the click*
\* definitions are the places of the render that call it, with the
\* conditions under which the element is rendered and enabled.

\* The topic input and the level select of the form.
handleInputChange ==
  /\ ~HasContent
  /\ \/ \E t \in Topics \cup {""} : formData' = [formData EXCEPT !.topic = t]
     \/ \E l \in Levels : formData' = [formData EXCEPT !.learner_level = l]
  /\ formData' # formData
  /\ toast' = "none"
  /\ UNCHANGED << isGenerating, generatedContent, currentStep, quizVars,
                  flippedCards, videoUrl, isGeneratingVideo, videoProgress,
                  serviceVars, urlVars, chatVars >>
  /\ Rendered

\* generateContent without setVideoProgress(0).
generateContent_keepsProgress ==
  /\ UNCHANGED << formData, generatedContent, quizVars, flippedCards, videoUrl,
                  isGeneratingVideo, videoCalls, urlVars, chatVars >>
  /\ IF formData.topic = "" \/ formData.learner_level = ""
       THEN /\ toast' = "fill_fields"
            /\ UNCHANGED << isGenerating, currentStep, videoProgress,
                            contentCalls, interval, effectPending >>
       ELSE /\ isGenerating' = TRUE
            /\ currentStep' = 0
            /\ videoProgress' = videoProgress
            /\ toast' = "generating"
            /\ contentCalls' = Append(contentCalls, formData)
            /\ Rendered

\* generateContent without the test of the form fields.
generateContent_noValidation ==
  /\ UNCHANGED << formData, generatedContent, quizVars, flippedCards, videoUrl,
                  isGeneratingVideo, videoCalls, urlVars, chatVars >>
  /\ isGenerating' = TRUE
  /\ currentStep' = 0
  /\ videoProgress' = 0
  /\ toast' = "generating"
  /\ contentCalls' = Append(contentCalls, formData)
  /\ Rendered

\* generateContent up to its await.
generateContent ==
  /\ UNCHANGED << formData, generatedContent, quizVars, flippedCards, videoUrl,
                  isGeneratingVideo, videoCalls, urlVars, chatVars >>
  /\ IF formData.topic = "" \/ formData.learner_level = ""
       THEN /\ toast' = "fill_fields"
            /\ UNCHANGED << isGenerating, currentStep, videoProgress,
                            contentCalls, interval, effectPending >>
       ELSE /\ isGenerating' = TRUE
            /\ currentStep' = 0
            /\ videoProgress' = 0
            /\ toast' = "generating"
            /\ contentCalls' = Append(contentCalls, formData)
            /\ Rendered

\* A click on the Generate button.
clickGenerate ==
  /\ GenerateButtonEnabled
  /\ generateContent

\* generateVideo posting a fixed id instead of its argument.
generateVideo_guessedId(contentId) ==
  /\ isGeneratingVideo' = TRUE
  /\ videoProgress' = ProgressOnStart
  /\ videoCalls' = Append(videoCalls, 1)

\* generateVideo without setVideoProgress(20).
generateVideo_keepsProgress(contentId) ==
  /\ isGeneratingVideo' = TRUE
  /\ videoProgress' = videoProgress
  /\ videoCalls' = Append(videoCalls, contentId)

\* generateVideo up to its await, as called from generateContent.
generateVideo(contentId) ==
  /\ isGeneratingVideo' = TRUE
  /\ videoProgress' = ProgressOnStart
  /\ videoCalls' = Append(videoCalls, contentId)

\* The content call resolves: the rest of the try block of generateContent,
\* up to the await inside generateVideo.
ContentSuccess ==
  \E i \in 1..Len(contentCalls), id \in ContentIds,
     n \in 0..MaxQuizLen, withIds \in BOOLEAN :
    /\ generatedContent' =
         << [id |-> id,
             topic |-> contentCalls[i].topic,
             learner_level |-> contentCalls[i].learner_level,
             quiz |-> Quiz(n, withIds),
             flashcards |-> Flashcards(withIds)] >>
    /\ currentStep' = 1
    /\ toast' = "content_ready"
    /\ generateVideo(id)
    /\ contentCalls' = RemoveAt(contentCalls, i)
    /\ UNCHANGED << formData, isGenerating, quizVars, flippedCards, videoUrl,
                    urlVars, chatRest >>
    /\ welcomeEffect
    /\ Rendered

\* The catch block of generateContent without setIsGenerating(false).
ContentFailure_staysGenerating ==
  \E i \in 1..Len(contentCalls) :
    /\ toast' = "content_failed"
    /\ currentStep' = 0
    /\ contentCalls' = RemoveAt(contentCalls, i)
    /\ UNCHANGED << formData, isGenerating, generatedContent, quizVars,
                    flippedCards, videoUrl, isGeneratingVideo, videoProgress,
                    videoCalls, urlVars, chatVars >>
    /\ Rendered

\* The content call rejects: the catch block of generateContent.
ContentFailure ==
  \E i \in 1..Len(contentCalls) :
    /\ toast' = "content_failed"
    /\ isGenerating' = FALSE
    /\ currentStep' = 0
    /\ contentCalls' = RemoveAt(contentCalls, i)
    /\ UNCHANGED << formData, generatedContent, quizVars, flippedCards,
                    videoUrl, isGeneratingVideo, videoProgress, videoCalls,
                    urlVars, chatVars >>
    /\ Rendered

\* The video call resolves: the rest of the try block of generateVideo and
\* its finally.
VideoSuccess ==
  \E i \in 1..Len(videoCalls) :
    /\ nextUrl < MaxUrls
    /\ nextUrl' = nextUrl + 1
    /\ revokes' = [u \in 1..(nextUrl + 1) |-> IF u <= nextUrl THEN revokes[u] ELSE 0]
    /\ videoUrl' = nextUrl + 1
    /\ videoProgress' = ProgressDone
    /\ currentStep' = 2
    /\ isGenerating' = FALSE
    /\ toast' = "video_ready"
    /\ isGeneratingVideo' = FALSE
    /\ videoCalls' = RemoveAt(videoCalls, i)
    /\ UNCHANGED << formData, generatedContent, quizVars, flippedCards,
                    contentCalls, chatVars >>
    /\ Rendered

\* The catch block of generateVideo completing the progress bar.
VideoFailure_completesProgress ==
  \E i \in 1..Len(videoCalls) :
    /\ toast' = "video_warning"
    /\ videoProgress' = ProgressDone
    /\ currentStep' = 2
    /\ isGenerating' = FALSE
    /\ isGeneratingVideo' = FALSE
    /\ videoCalls' = RemoveAt(videoCalls, i)
    /\ UNCHANGED << formData, generatedContent, quizVars, flippedCards,
                    videoUrl, contentCalls, urlVars, chatVars >>
    /\ Rendered

\* The catch block of generateVideo without setIsGenerating(false).
VideoFailure_staysGenerating ==
  \E i \in 1..Len(videoCalls) :
    /\ toast' = "video_warning"
    /\ currentStep' = 2
    /\ isGeneratingVideo' = FALSE
    /\ videoCalls' = RemoveAt(videoCalls, i)
    /\ UNCHANGED << formData, isGenerating, generatedContent, quizVars,
                    flippedCards, videoUrl, videoProgress, contentCalls,
                    urlVars, chatVars >>
    /\ Rendered

\* The video call rejects: the catch block of generateVideo and its finally.
\* The status 404, the code ECONNABORTED and any other error differ only in
\* the text of the warning shown; the state updates are the same.
VideoFailure ==
  \E i \in 1..Len(videoCalls) :
    /\ toast' = "video_warning"
    /\ currentStep' = 2
    /\ isGenerating' = FALSE
    /\ isGeneratingVideo' = FALSE
    /\ videoCalls' = RemoveAt(videoCalls, i)
    /\ UNCHANGED << formData, generatedContent, quizVars, flippedCards,
                    videoUrl, videoProgress, contentCalls, urlVars, chatVars >>
    /\ Rendered

\* handleQuizAnswer(questionId, answerIndex)
handleQuizAnswer(questionId, answerIndex) ==
  /\ quizAnswers' = [k \in DOMAIN quizAnswers \cup {questionId} |->
                       IF k = questionId THEN answerIndex ELSE quizAnswers[k]]
  /\ toast' = "none"
  /\ UNCHANGED << formData, isGenerating, generatedContent, currentStep,
                  showQuizResults, quizScore, canRetakeQuiz, flippedCards,
                  videoUrl, isGeneratingVideo, videoProgress, serviceVars,
                  urlVars, chatVars >>
  /\ Rendered

\* The option buttons enabled only once the video call has settled.
clickOption_waitsForVideo ==
  /\ HasContent
  /\ ~showQuizResults
  /\ ~isGeneratingVideo
  /\ \E q \in 1..Len(Content.quiz), oIndex \in OptionIndexes :
       handleQuizAnswer(QuestionKey(Content.quiz[q], q - 1), oIndex)
  /\ quizAnswers' # quizAnswers

\* The option buttons without the showQuizResults test.
clickOption_ignoresResults ==
  /\ HasContent
  /\ \E q \in 1..Len(Content.quiz), oIndex \in OptionIndexes :
       handleQuizAnswer(QuestionKey(Content.quiz[q], q - 1), oIndex)
  /\ quizAnswers' # quizAnswers

\* A click on an option button of the quiz:
\* !showQuizResults && handleQuizAnswer(question.id || `q_${qIndex}`, oIndex),
\* on a button with disabled={showQuizResults}.
clickOption ==
  /\ HasContent
  /\ ~showQuizResults
  /\ \E q \in 1..Len(Content.quiz), oIndex \in OptionIndexes :
       handleQuizAnswer(QuestionKey(Content.quiz[q], q - 1), oIndex)
  /\ quizAnswers' # quizAnswers
\* The Submit Quiz button rendered as soon as one answer is given.
SubmitQuizEnabled_anyAnswer ==
  /\ HasContent
  /\ ~showQuizResults
  /\ Len(Content.quiz) > 0
  /\ Cardinality(DOMAIN quizAnswers) > 0

\* The Submit Quiz button is rendered under this condition.
SubmitQuizEnabled ==
  /\ HasContent
  /\ ~showQuizResults
  /\ Len(Content.quiz) > 0
  /\ Cardinality(DOMAIN quizAnswers) = Len(Content.quiz)

\* quiz.filter(q => quizAnswers[q.id] === q.correct_answer).length; a
\* question without id looks up quizAnswers[undefined], which is absent.
CorrectAnswers(quiz, answers) ==
  Cardinality({q \in 1..Len(quiz) :
                 /\ quiz[q].id \in DOMAIN answers
                 /\ answers[quiz[q].id] = quiz[q].correct_answer})

\* JavaScript numbers are IEEE 754 doubles. A positive double is modelled as
\* [bits, exp]: bits are the 53 bits of the significand, the most significant
\* (always 1) first, and the value is 0.bits * 2^exp. Long numbers are
\* handled in limbs of 18 bits.
SignificandBits == 53
LimbBits == 18

RECURSIVE Pow2(_)
Pow2(k) == IF k = 0 THEN 1 ELSE 2 * Pow2(k - 1)

Limb == Pow2(LimbBits)

\* The n binary digits of q, most significant first.
Bits(q, n) == [i \in 1..n |-> (q \div Pow2(n - i)) % 2]

RECURSIVE BitsToInt(_)
BitsToInt(s) ==
  IF Len(s) = 0 THEN 0
  ELSE 2 * BitsToInt(SubSeq(s, 1, Len(s) - 1)) + s[Len(s)]

\* s without its leading zeros.
Normalized(s) ==
  SubSeq(s, CHOOSE i \in 1..Len(s) :
              s[i] = 1 /\ \A j \in 1..(i - 1) : s[j] = 0,
         Len(s))

\* s + 1 for a bit sequence that is not all ones.
AddOne(s) ==
  LET z == CHOOSE i \in 1..Len(s) :
             s[i] = 0 /\ \A j \in (i + 1)..Len(s) : s[j] = 1
  IN [i \in 1..Len(s) |-> IF i < z THEN s[i] ELSE IF i = z THEN 1 ELSE 0]

\* Round to nearest, ties to even: s holds more than 53 bits, s[1] = 1, and
\* sticky tells whether the exact value has non-zero bits beyond s.
RoundToDouble(s, sticky, exp) ==
  LET kept == SubSeq(s, 1, SignificandBits)
      roundUp ==
        /\ s[SignificandBits + 1] = 1
        /\ \/ sticky
           \/ \E i \in (SignificandBits + 2)..Len(s) : s[i] = 1
           \/ kept[SignificandBits] = 1
  IN IF ~roundUp THEN [bits |-> kept, exp |-> exp]
     ELSE IF \A i \in 1..SignificandBits : kept[i] = 1
            THEN [bits |-> Bits(Pow2(SignificandBits - 1), SignificandBits),
                  exp |-> exp + 1]
            ELSE [bits |-> AddOne(kept), exp |-> exp]

RECURSIVE Shift(_, _)
\* The number of doublings that bring c up to at least t.
Shift(c, t) == IF c >= t THEN 0 ELSE 1 + Shift(2 * c, t)

\* correctAnswers / totalQuestions, for 0 < c <= t: the leading 1 and three
\* limbs of the long division of the rest.
DoubleDiv(c, t) ==
  LET k == Shift(c, t)
      r0 == c * Pow2(k) - t
      q1 == (r0 * Limb) \div t
      r1 == (r0 * Limb) % t
      q2 == (r1 * Limb) \div t
      r2 == (r1 * Limb) % t
      q3 == (r2 * Limb) \div t
      r3 == (r2 * Limb) % t
  IN RoundToDouble(<<1>> \o Bits(q1, LimbBits) \o Bits(q2, LimbBits)
                         \o Bits(q3, LimbBits),
                   r3 # 0, 1 - k)

\* d * 100: the significand times 100, limb by limb with carry, is exact;
\* the product is then rounded.
DoubleTimes100(d) ==
  LET m1 == BitsToInt(SubSeq(d.bits, 1, SignificandBits - 2 * LimbBits))
      m2 == BitsToInt(SubSeq(d.bits, SignificandBits - 2 * LimbBits + 1,
                             SignificandBits - LimbBits))
      m3 == BitsToInt(SubSeq(d.bits, SignificandBits - LimbBits + 1,
                             SignificandBits))
      p3 == m3 * 100
      p2 == m2 * 100 + p3 \div Limb
      p1 == m1 * 100 + p2 \div Limb
      product == Bits(p1, LimbBits + 7) \o Bits(p2 % Limb, LimbBits)
                   \o Bits(p3 % Limb, LimbBits)
      significand == Normalized(product)
  IN RoundToDouble(significand, FALSE,
                   d.exp + Len(significand) - SignificandBits)

\* Math.round: the nearest integer, a fraction of one half going up.
MathRound(d) ==
  IF d.exp < 0 THEN 0
  ELSE BitsToInt(SubSeq(d.bits, 1, d.exp)) + d.bits[d.exp + 1]

NaN == -1

\* Math.round((correctAnswers / totalQuestions) * 100); 0 / 0 is NaN and
\* Math.round(NaN) is NaN.
Percentage(correctAnswers, totalQuestions) ==
  IF totalQuestions = 0 THEN NaN
  ELSE IF correctAnswers = 0 THEN 0
  ELSE MathRound(DoubleTimes100(DoubleDiv(correctAnswers, totalQuestions)))

\* submitQuiz(): generatedContent.quiz of null throws before any update, so
\* the function acts only with content. Every comparison with NaN is false.
submitQuiz ==
  /\ HasContent
  /\ LET correctAnswers == CorrectAnswers(Content.quiz, quizAnswers)
         totalQuestions == Len(Content.quiz)
         percentage == Percentage(correctAnswers, totalQuestions)
     IN /\ quizScore' = << [correct |-> correctAnswers, total |-> totalQuestions,
                            percentage |-> percentage] >>
        /\ showQuizResults' = TRUE
        /\ IF percentage # NaN /\ percentage >= PassThreshold
             THEN toast' = "quiz_passed" /\ canRetakeQuiz' = FALSE
             ELSE toast' = "quiz_failed" /\ canRetakeQuiz' = TRUE
  /\ UNCHANGED << formData, isGenerating, generatedContent, currentStep,
                  quizAnswers, flippedCards, videoUrl, isGeneratingVideo,
                  videoProgress, serviceVars, urlVars, chatVars >>
  /\ Rendered

\* A click on Submit Quiz.
clickSubmitQuiz ==
  /\ SubmitQuizEnabled
  /\ submitQuiz

\* retakeQuiz without setQuizAnswers({}).
retakeQuiz_keepsAnswers ==
  /\ quizAnswers' = quizAnswers
  /\ showQuizResults' = FALSE
  /\ quizScore' = NoScore
  /\ canRetakeQuiz' = FALSE
  /\ toast' = "quiz_reset"
  /\ UNCHANGED << formData, isGenerating, generatedContent, currentStep,
                  flippedCards, videoUrl, isGeneratingVideo, videoProgress,
                  serviceVars, urlVars, chatVars >>
  /\ Rendered

\* retakeQuiz without setQuizScore(null).
retakeQuiz_keepsScore ==
  /\ quizAnswers' = EmptyAnswers
  /\ showQuizResults' = FALSE
  /\ quizScore' = quizScore
  /\ canRetakeQuiz' = FALSE
  /\ toast' = "quiz_reset"
  /\ UNCHANGED << formData, isGenerating, generatedContent, currentStep,
                  flippedCards, videoUrl, isGeneratingVideo, videoProgress,
                  serviceVars, urlVars, chatVars >>
  /\ Rendered

\* retakeQuiz()
retakeQuiz ==
  /\ quizAnswers' = EmptyAnswers
  /\ showQuizResults' = FALSE
  /\ quizScore' = NoScore
  /\ canRetakeQuiz' = FALSE
  /\ toast' = "quiz_reset"
  /\ UNCHANGED << formData, isGenerating, generatedContent, currentStep,
                  flippedCards, videoUrl, isGeneratingVideo, videoProgress,
                  serviceVars, urlVars, chatVars >>
  /\ Rendered

\* A click on Retake Quiz, rendered inside the results card (showQuizResults
\* && quizScore) when canRetakeQuiz.
clickRetakeQuiz ==
  /\ HasContent
  /\ showQuizResults
  /\ quizScore # NoScore
  /\ canRetakeQuiz
  /\ retakeQuiz

\* The set toggleFlashcard builds when it never deletes.
newFlipped_onlyAdds(flipped, cardId) == flipped \cup {cardId}

\* The set toggleFlashcard builds: a copy of flippedCards with cardId deleted
\* when it has it and added when not.
newFlipped(flipped, cardId) ==
  IF cardId \in flipped THEN flipped \ {cardId} ELSE flipped \cup {cardId}

\* toggleFlashcard(cardId)
toggleFlashcard(cardId) ==
  /\ flippedCards' = newFlipped(flippedCards, cardId)
  /\ toast' = "none"
  /\ UNCHANGED << formData, isGenerating, generatedContent, currentStep,
                  quizVars, videoUrl, isGeneratingVideo, videoProgress,
                  serviceVars, urlVars, chatVars >>
  /\ Rendered

\* A click on a flashcard: toggleFlashcard(card.id || `card_${index}`).
clickFlashcard ==
  /\ HasContent
  /\ \E c \in 1..Len(Content.flashcards) :
       toggleFlashcard(CardKey(Content.flashcards[c], c - 1))

\* resetApp without the reset of the quiz and of the flipped cards.
resetApp_keepsQuiz ==
  /\ HasContent
  /\ formData' = [topic |-> "", learner_level |-> ""]
  /\ generatedContent' = NoContent
  /\ currentStep' = 0
  /\ videoUrl' = NoUrl
  /\ isGeneratingVideo' = FALSE
  /\ videoProgress' = 0
  /\ revokes' = IF videoUrl # NoUrl
                  THEN [revokes EXCEPT ![videoUrl] = @ + 1]
                  ELSE revokes
  /\ toast' = "none"
  /\ UNCHANGED << isGenerating, quizVars, flippedCards, serviceVars, nextUrl,
                  chatRest >>
  /\ welcomeEffect
  /\ Rendered

\* resetApp without URL.revokeObjectURL.
resetApp_noRevoke ==
  /\ HasContent
  /\ formData' = [topic |-> "", learner_level |-> ""]
  /\ generatedContent' = NoContent
  /\ currentStep' = 0
  /\ quizAnswers' = EmptyAnswers
  /\ showQuizResults' = FALSE
  /\ flippedCards' = {}
  /\ videoUrl' = NoUrl
  /\ isGeneratingVideo' = FALSE
  /\ videoProgress' = 0
  /\ quizScore' = NoScore
  /\ canRetakeQuiz' = FALSE
  /\ revokes' = revokes
  /\ toast' = "none"
  /\ UNCHANGED << isGenerating, serviceVars, nextUrl, chatRest >>
  /\ welcomeEffect
  /\ Rendered

\* resetApp with setIsGenerating(false).
resetApp_clearsGenerating ==
  /\ HasContent
  /\ formData' = [topic |-> "", learner_level |-> ""]
  /\ generatedContent' = NoContent
  /\ currentStep' = 0
  /\ isGenerating' = FALSE
  /\ quizAnswers' = EmptyAnswers
  /\ showQuizResults' = FALSE
  /\ flippedCards' = {}
  /\ videoUrl' = NoUrl
  /\ isGeneratingVideo' = FALSE
  /\ videoProgress' = 0
  /\ quizScore' = NoScore
  /\ canRetakeQuiz' = FALSE
  /\ revokes' = IF videoUrl # NoUrl
                  THEN [revokes EXCEPT ![videoUrl] = @ + 1]
                  ELSE revokes
  /\ toast' = "none"
  /\ UNCHANGED << serviceVars, nextUrl, chatRest >>
  /\ welcomeEffect
  /\ Rendered

\* A click on "Create New Experience", rendered with the generated content.
resetApp ==
  /\ HasContent
  /\ formData' = [topic |-> "", learner_level |-> ""]
  /\ generatedContent' = NoContent
  /\ currentStep' = 0
  /\ quizAnswers' = EmptyAnswers
  /\ showQuizResults' = FALSE
  /\ flippedCards' = {}
  /\ videoUrl' = NoUrl
  /\ isGeneratingVideo' = FALSE
  /\ videoProgress' = 0
  /\ quizScore' = NoScore
  /\ canRetakeQuiz' = FALSE
  /\ revokes' = IF videoUrl # NoUrl
                  THEN [revokes EXCEPT ![videoUrl] = @ + 1]
                  ELSE revokes
  /\ toast' = "none"
  /\ UNCHANGED << isGenerating, serviceVars, nextUrl, chatRest >>
  /\ welcomeEffect
  /\ Rendered

\* The effect of the last render runs: cleanup of the previous effect
\* (clearInterval), then the body.
RunEffect ==
  /\ effectPending
  /\ interval' = EffectArms
  /\ effectPending' = FALSE
  /\ toast' = "none"
  /\ UNCHANGED << formData, isGenerating, generatedContent, currentStep,
                  quizVars, flippedCards, videoUrl, isGeneratingVideo,
                  videoProgress, serviceVars, urlVars, chatVars >>

\* The interval callback without Math.min(..., 80).
Tick_noClamp ==
  /\ interval
  /\ \E r \in Increments : videoProgress' = videoProgress + r
  /\ toast' = "none"
  /\ UNCHANGED << formData, isGenerating, generatedContent, currentStep,
                  quizVars, flippedCards, videoUrl, isGeneratingVideo,
                  serviceVars, urlVars, chatVars >>
  /\ IF videoProgress' = videoProgress
       THEN UNCHANGED << interval, effectPending >>
       ELSE Rendered

\* The interval callback fires:
\* setVideoProgress(prev => Math.min(prev + Math.random() * 10, 80)).
Tick ==
  /\ interval
  /\ \E r \in Increments :
       videoProgress' = Min(videoProgress + r, ProgressCeiling)
  /\ toast' = "none"
  /\ UNCHANGED << formData, isGenerating, generatedContent, currentStep,
                  quizVars, flippedCards, videoUrl, isGeneratingVideo,
                  serviceVars, urlVars, chatVars >>
  /\ IF videoProgress' = videoProgress
       THEN UNCHANGED << interval, effectPending >>
       ELSE Rendered

Next ==
  \/ handleInputChange
  \/ clickGenerate
  \/ ContentSuccess
  \/ ContentFailure
  \/ VideoSuccess
  \/ VideoFailure
  \/ clickOption
  \/ clickSubmitQuiz
  \/ clickRetakeQuiz
  \/ clickFlashcard
  \/ resetApp
  \/ RunEffect
  \/ Tick

Spec == Init /\ [][Next]_vars

\* ------------------------------------------------ the pipeline with fairness
\* The pipeline alone (form, calls, reset, progress effect), with the
\* assumption that every outstanding service call is eventually answered:
\* the content call resolves or rejects, and the video call resolves or
\* rejects, at the latest by its timeout of 180000 ms.
NextPipeline ==
  \/ handleInputChange
  \/ clickGenerate
  \/ ContentSuccess
  \/ ContentFailure
  \/ VideoSuccess
  \/ VideoFailure
  \/ resetApp
  \/ RunEffect
  \/ Tick

SpecLive ==
  /\ Init
  /\ [][NextPipeline]_vars
  /\ WF_vars(ContentSuccess \/ ContentFailure)
  /\ WF_vars(VideoSuccess \/ VideoFailure)

\* ----------------------------------------------- the functions on their own
\* The functions of App called on their own, from states of the two screens:
\* the form with any filling, and the content screen after a failed video
\* call with a quiz of up to MaxTotal questions of which the first `correct`
\* are answered rightly and the others wrongly or not at all, recorded under
\* the keys the option buttons use.
CardIdPool == {<<"id", 1>>, <<"card", 0>>}

AnswersGiven(quiz, correct, answered) ==
  [k \in {QuestionKey(quiz[q], q - 1) : q \in 1..answered} |->
     LET q == CHOOSE q \in 1..answered : QuestionKey(quiz[q], q - 1) = k
     IN IF q <= correct
          THEN quiz[q].correct_answer
          ELSE CHOOSE o \in OptionIndexes : o # quiz[q].correct_answer]

InitDirect ==
  /\ isGenerating = FALSE
  /\ showQuizResults = FALSE
  /\ flippedCards = {}
  /\ videoUrl = NoUrl
  /\ isGeneratingVideo = FALSE
  /\ quizScore = NoScore
  /\ canRetakeQuiz = FALSE
  /\ contentCalls = << >>
  /\ videoCalls = << >>
  /\ nextUrl = 0
  /\ revokes = [u \in {} |-> 0]
  /\ interval = FALSE
  /\ effectPending = FALSE
  /\ toast = "none"
  /\ isOpen = FALSE
  /\ isMinimized = FALSE
  /\ messages = << >>
  /\ inputMessage = ""
  /\ isLoading = FALSE
  /\ sessionId = 1
  /\ chatCalls = << >>
  /\ \/ /\ formData \in [topic : Topics \cup {""},
                         learner_level : Levels \cup {""}]
        /\ generatedContent = NoContent
        /\ currentStep = 0
        /\ videoProgress = 0
        /\ quizAnswers = EmptyAnswers
     \/ \E topic \in Topics, level \in Levels, total \in 0..MaxTotal,
           withIds \in BOOLEAN :
          \E correct \in 0..total, answered \in 0..total :
            /\ answered \in {correct, total}
            /\ formData = [topic |-> topic, learner_level |-> level]
            /\ generatedContent =
                 << [id |-> 1, topic |-> topic, learner_level |-> level,
                     quiz |-> Quiz(total, withIds),
                     flashcards |-> Flashcards(withIds)] >>
            /\ currentStep = 2
            /\ videoProgress = ProgressOnStart
            /\ quizAnswers = AnswersGiven(Quiz(total, withIds), correct, answered)

\* generateContent called from the form whatever the state of the Generate
\* button, while no content call is outstanding.
callGenerateContent ==
  /\ ~HasContent
  /\ Len(contentCalls) = 0
  /\ generateContent

callToggleFlashcard == \E cardId \in CardIdPool : toggleFlashcard(cardId)

NextDirect ==
  \/ callGenerateContent
  \/ submitQuiz
  \/ retakeQuiz
  \/ callToggleFlashcard

SpecDirect == InitDirect /\ [][NextDirect]_vars

\* ------------------------------------------------------ the quiz on screen
\* The quiz as the user works it: the content screen after a failed video
\* call, with a quiz of up to MaxQuestions questions and no answer yet.
InitQuiz ==
  /\ isGenerating = FALSE
  /\ quizAnswers = EmptyAnswers
  /\ showQuizResults = FALSE
  /\ flippedCards = {}
  /\ videoUrl = NoUrl
  /\ isGeneratingVideo = FALSE
  /\ videoProgress = ProgressOnStart
  /\ quizScore = NoScore
  /\ canRetakeQuiz = FALSE
  /\ currentStep = 2
  /\ contentCalls = << >>
  /\ videoCalls = << >>
  /\ nextUrl = 0
  /\ revokes = [u \in {} |-> 0]
  /\ interval = FALSE
  /\ effectPending = FALSE
  /\ toast = "none"
  /\ isOpen = FALSE
  /\ isMinimized = FALSE
  /\ messages = << >>
  /\ inputMessage = ""
  /\ isLoading = FALSE
  /\ sessionId = 1
  /\ chatCalls = << >>
  /\ \E topic \in Topics, level \in Levels, total \in 0..MaxQuestions,
        withIds \in BOOLEAN :
       /\ formData = [topic |-> topic, learner_level |-> level]
       /\ generatedContent =
            << [id |-> 1, topic |-> topic, learner_level |-> level,
                quiz |-> Quiz(total, withIds),
                flashcards |-> Flashcards(withIds)] >>

NextQuiz ==
  \/ clickOption
  \/ clickSubmitQuiz
  \/ clickRetakeQuiz
  \/ resetApp

SpecQuiz == InitQuiz /\ [][NextQuiz]_vars

\* --------------------------------------------------------------- ChatBot
\* What the user can have in the chat input, and inputMessage.trim().
InputTexts == {"", "   ", "What is a leaf?", " What is a leaf? "}

Trim(text) ==
  CASE text = "   " -> ""
    [] text = " What is a leaf? " -> "What is a leaf?"
    [] OTHER -> text

SessionIds == {1, 2}

\* The context of a chat call that never carries the topic.
ChatContext_noTopic == << >>

\* currentTopic ? {current_topic, learning_style, learner_level} : null, with
\* the props App passes (generatedContent?.topic, ?.learner_level).
ChatContext ==
  IF HasContent
    THEN << [current_topic |-> Content.topic,
             learning_style |-> "comprehensive",
             learner_level |-> Content.learner_level] >>
    ELSE << >>

ClearedMessage == [role |-> "assistant", content |-> "cleared", error |-> FALSE]
ApologyMessage == [role |-> "assistant", content |-> "apology", error |-> TRUE]

notChat == << appState, serviceVars, urlVars, interval, effectPending >>

\* The open button, with the effect on [isOpen, currentTopic] that follows
\* the render: the welcome message when there is no message yet.
openChat ==
  /\ ~isOpen
  /\ isOpen' = TRUE
  /\ messages' = IF Len(messages) = 0 THEN << WelcomeMessage >> ELSE messages
  /\ toast' = "none"
  /\ UNCHANGED << isMinimized, inputMessage, isLoading, sessionId, chatCalls,
                  notChat >>

\* The close button.
closeChat ==
  /\ isOpen
  /\ isOpen' = FALSE
  /\ toast' = "none"
  /\ UNCHANGED << isMinimized, messages, inputMessage, isLoading, sessionId,
                  chatCalls, notChat >>

\* The minimize / maximize button.
toggleMinimized ==
  /\ isOpen
  /\ isMinimized' = ~isMinimized
  /\ toast' = "none"
  /\ UNCHANGED << isOpen, messages, inputMessage, isLoading, sessionId,
                  chatCalls, notChat >>

\* Typing in the input (disabled while loading) or a quick action.
setInputMessage ==
  /\ isOpen
  /\ ~isMinimized
  /\ \/ ~isLoading /\ inputMessage' \in InputTexts
     \/ inputMessage' = "What is a leaf?"
  /\ inputMessage' # inputMessage
  /\ toast' = "none"
  /\ UNCHANGED << isOpen, isMinimized, messages, isLoading, sessionId,
                  chatCalls, notChat >>

\* sendMessage without the test of the trimmed text.
sendMessage_noTrimTest ==
  /\ toast' = "none"
  /\ UNCHANGED << isOpen, isMinimized, sessionId, notChat >>
  /\ IF isLoading
       THEN UNCHANGED << messages, inputMessage, isLoading, chatCalls >>
       ELSE /\ messages' = Append(messages,
                                  [role |-> "user",
                                   content |-> Trim(inputMessage),
                                   error |-> FALSE])
            /\ inputMessage' = ""
            /\ isLoading' = TRUE
            /\ chatCalls' = Append(chatCalls,
                                   [session_id |-> sessionId,
                                    message |-> Trim(inputMessage),
                                    context |-> ChatContext])

\* sendMessage without the isLoading test.
sendMessage_ignoresLoading ==
  /\ toast' = "none"
  /\ UNCHANGED << isOpen, isMinimized, sessionId, notChat >>
  /\ IF Trim(inputMessage) = ""
       THEN UNCHANGED << messages, inputMessage, isLoading, chatCalls >>
       ELSE /\ messages' = Append(messages,
                                  [role |-> "user",
                                   content |-> Trim(inputMessage),
                                   error |-> FALSE])
            /\ inputMessage' = ""
            /\ isLoading' = TRUE
            /\ chatCalls' = Append(chatCalls,
                                   [session_id |-> sessionId,
                                    message |-> Trim(inputMessage),
                                    context |-> ChatContext])

\* sendMessage up to its await.
sendMessage ==
  /\ toast' = "none"
  /\ UNCHANGED << isOpen, isMinimized, sessionId, notChat >>
  /\ IF Trim(inputMessage) = "" \/ isLoading
       THEN UNCHANGED << messages, inputMessage, isLoading, chatCalls >>
       ELSE /\ messages' = Append(messages,
                                  [role |-> "user",
                                   content |-> Trim(inputMessage),
                                   error |-> FALSE])
            /\ inputMessage' = ""
            /\ isLoading' = TRUE
            /\ chatCalls' = Append(chatCalls,
                                   [session_id |-> sessionId,
                                    message |-> Trim(inputMessage),
                                    context |-> ChatContext])

\* handleKeyPress: Enter without Shift in the input, which is disabled while
\* loading.
pressEnter ==
  /\ isOpen
  /\ ~isMinimized
  /\ ~isLoading
  /\ Len(messages) < MaxMessages
  /\ sendMessage

\* The send button: disabled={!inputMessage.trim() || isLoading}.
clickSend ==
  /\ isOpen
  /\ ~isMinimized
  /\ Trim(inputMessage) # ""
  /\ ~isLoading
  /\ Len(messages) < MaxMessages
  /\ sendMessage

\* The reply stored with setMessages([assistantMessage]).
ChatSuccess_replacesLog ==
  \E i \in 1..Len(chatCalls), error \in BOOLEAN :
    /\ messages' = << [role |-> "assistant", content |-> "reply",
                       error |-> error] >>
    /\ isLoading' = FALSE
    /\ chatCalls' = RemoveAt(chatCalls, i)
    /\ toast' = "none"
    /\ UNCHANGED << isOpen, isMinimized, inputMessage, sessionId, notChat >>

\* The chat call resolves: the rest of the try block and the finally.
ChatSuccess ==
  \E i \in 1..Len(chatCalls), error \in BOOLEAN :
    /\ messages' = Append(messages, [role |-> "assistant",
                                     content |-> "reply", error |-> error])
    /\ isLoading' = FALSE
    /\ chatCalls' = RemoveAt(chatCalls, i)
    /\ toast' = "none"
    /\ UNCHANGED << isOpen, isMinimized, inputMessage, sessionId, notChat >>

\* The catch block without the finally (setIsLoading(false)).
ChatFailure_staysLoading ==
  \E i \in 1..Len(chatCalls) :
    /\ messages' = Append(messages, ApologyMessage)
    /\ isLoading' = isLoading
    /\ chatCalls' = RemoveAt(chatCalls, i)
    /\ toast' = "none"
    /\ UNCHANGED << isOpen, isMinimized, inputMessage, sessionId, notChat >>

\* The chat call rejects: the catch block and the finally.
ChatFailure ==
  \E i \in 1..Len(chatCalls) :
    /\ messages' = Append(messages, ApologyMessage)
    /\ isLoading' = FALSE
    /\ chatCalls' = RemoveAt(chatCalls, i)
    /\ toast' = "none"
    /\ UNCHANGED << isOpen, isMinimized, inputMessage, sessionId, notChat >>

\* clearChat with setMessages([]) only.
clearChat_emptiesLog ==
  /\ isOpen
  /\ ~isMinimized
  /\ messages' = << >>
  /\ toast' = "none"
  /\ UNCHANGED << isOpen, isMinimized, inputMessage, isLoading, sessionId,
                  chatCalls, notChat >>

\* clearChat starting a new session.
clearChat_newSession ==
  /\ isOpen
  /\ ~isMinimized
  /\ messages' = << ClearedMessage >>
  /\ sessionId' \in SessionIds \ {sessionId}
  /\ toast' = "none"
  /\ UNCHANGED << isOpen, isMinimized, inputMessage, isLoading, chatCalls,
                  notChat >>

\* The clear button: setMessages([]) then setMessages([welcomeMessage]).
clearChat ==
  /\ isOpen
  /\ ~isMinimized
  /\ messages' = << ClearedMessage >>
  /\ toast' = "none"
  /\ UNCHANGED << isOpen, isMinimized, inputMessage, isLoading, sessionId,
                  chatCalls, notChat >>

\* ChatBot is mounted by App with or without generated content; the session
\* id is made once, when the component mounts.
InitChat ==
  /\ isGenerating = FALSE
  /\ quizAnswers = EmptyAnswers
  /\ showQuizResults = FALSE
  /\ flippedCards = {}
  /\ videoUrl = NoUrl
  /\ isGeneratingVideo = FALSE
  /\ quizScore = NoScore
  /\ canRetakeQuiz = FALSE
  /\ contentCalls = << >>
  /\ videoCalls = << >>
  /\ nextUrl = 0
  /\ revokes = [u \in {} |-> 0]
  /\ interval = FALSE
  /\ effectPending = FALSE
  /\ toast = "none"
  /\ isOpen = FALSE
  /\ isMinimized = FALSE
  /\ messages = << >>
  /\ inputMessage = ""
  /\ isLoading = FALSE
  /\ sessionId \in SessionIds
  /\ chatCalls = << >>
  /\ \/ /\ formData = [topic |-> "", learner_level |-> ""]
        /\ generatedContent = NoContent
        /\ currentStep = 0
        /\ videoProgress = 0
     \/ \E topic \in Topics, level \in Levels :
          /\ formData = [topic |-> topic, learner_level |-> level]
          /\ generatedContent =
               << [id |-> 1, topic |-> topic, learner_level |-> level,
                   quiz |-> Quiz(1, TRUE), flashcards |-> Flashcards(TRUE)] >>
          /\ currentStep = 2
          /\ videoProgress = ProgressOnStart

NextChat ==
  \/ openChat
  \/ closeChat
  \/ toggleMinimized
  \/ setInputMessage
  \/ pressEnter
  \/ clickSend
  \/ ChatSuccess
  \/ ChatFailure
  \/ clearChat
  \/ resetApp

SpecChat == InitChat /\ [][NextChat]_vars

\* The chat service answers every call, with a reply or with a failure.
SpecChatLive ==
  /\ InitChat
  /\ [][NextChat]_vars
  /\ WF_vars(ChatSuccess \/ ChatFailure)

\* sendMessage called whatever the state of the input and of the send button
\* (both are disabled while a call is pending).
callSendMessage ==
  /\ Len(messages) < MaxMessages
  /\ sendMessage

NextChatDirect ==
  \/ NextChat
  \/ callSendMessage

SpecChatDirect == InitChat /\ [][NextChatDirect]_vars


\* ------------------------------------------------------------ properties

LiveUrls == {u \in DOMAIN revokes : revokes[u] = 0}

\* C1: when the video call fails while isGeneratingVideo holds, the next
\* state has currentStep = 2, isGenerating and isGeneratingVideo false, the
\* same generatedContent as before, and no videoUrl.
C1_VideoFailureLeavesReadyWithoutAsset ==
  [][ (isGeneratingVideo /\ VideoFailure) =>
        /\ currentStep' = 2
        /\ ~isGenerating'
        /\ ~isGeneratingVideo'
        /\ generatedContent' = generatedContent
        /\ videoUrl' = NoUrl ]_vars

\* C2: a click on Generate with non-empty topic and learner_level sets
\* isGenerating, currentStep = 0 and videoProgress = 0 and adds exactly one
\* content call, carrying the form data; and whenever a content call is
\* outstanding or isGeneratingVideo holds, the Generate button is not
\* available.
C2_SubmitEntersContentPending ==
  /\ [][ (generateContent /\ formData.topic # "" /\ formData.learner_level # "") =>
           /\ isGenerating'
           /\ currentStep' = 0
           /\ videoProgress' = 0
           /\ contentCalls' = Append(contentCalls, formData)
           /\ ~GenerateButtonEnabled' ]_vars
  /\ []((Len(contentCalls) > 0 \/ isGeneratingVideo) => ~GenerateButtonEnabled)

C2_Witness ==
  /\ Len(contentCalls) = 1
  /\ isGenerating
  /\ currentStep = 0
  /\ videoProgress = 0

\* C3: at most one content call and at most one video call are outstanding,
\* and while either is outstanding the Generate button is not available.
C3_AtMostOneCallOutstanding ==
  /\ Len(contentCalls) <= 1
  /\ Len(videoCalls) <= 1
  /\ (Len(contentCalls) > 0 \/ Len(videoCalls) > 0) => ~GenerateButtonEnabled

\* A video call is outstanding after a reset and the form is filled in
\* again: only the isGenerating test keeps the button disabled.
C3_Witness ==
  /\ Len(videoCalls) = 1
  /\ ~HasContent
  /\ formData.topic # ""
  /\ formData.learner_level # ""

\* C4: a video response that arrives when the content it was requested for
\* has been discarded by reset changes no state of App.
C4_LateVideoResponseIgnored ==
  [][ ((VideoSuccess \/ VideoFailure) /\ ~HasContent) => UNCHANGED appState ]_vars

\* C5: reset leaves no content, no video URL, videoProgress = 0, no quiz
\* answers, no score, results hidden, no flipped card, currentStep = 0 and
\* neither isGenerating nor isGeneratingVideo, so that the Generate button
\* only waits for the form to be filled in.
C5_ResetLeavesIdle ==
  [][ resetApp =>
        /\ generatedContent' = NoContent
        /\ videoUrl' = NoUrl
        /\ videoProgress' = 0
        /\ quizAnswers' = EmptyAnswers
        /\ quizScore' = NoScore
        /\ ~showQuizResults'
        /\ flippedCards' = {}
        /\ currentStep' = 0
        /\ ~isGeneratingVideo'
        /\ ~isGenerating' ]_vars

\* C6: reset in a Ready state that holds a video URL revokes that URL, which
\* was not revoked before, exactly once, and clears quiz answers, flipped
\* cards and score; no URL is ever revoked twice.
C6_ResetReleasesAssetOnce ==
  /\ [][ (resetApp /\ currentStep = 2 /\ ~isGenerating /\ videoUrl # NoUrl) =>
           /\ revokes[videoUrl] = 0
           /\ revokes' = [revokes EXCEPT ![videoUrl] = 1]
           /\ quizAnswers' = EmptyAnswers
           /\ flippedCards' = {}
           /\ quizScore' = NoScore ]_vars
  /\ [](\A u \in DOMAIN revokes : revokes[u] <= 1)

C6_Witness ==
  /\ ~HasContent
  /\ videoUrl = NoUrl
  /\ \E u \in DOMAIN revokes : revokes[u] = 1
  /\ quizAnswers = EmptyAnswers
  /\ flippedCards = {}
  /\ quizScore = NoScore

\* C7: at most one created and not yet revoked object URL exists, and a URL
\* held in videoUrl is revoked by the step that replaces it.
C7_SingleLiveAsset ==
  /\ [](Cardinality(LiveUrls) <= 1)
  /\ [][ (videoUrl # NoUrl /\ videoUrl' # videoUrl) => revokes'[videoUrl] >= 1 ]_vars

\* C8: a video call is issued exactly by the step in which a content call
\* resolves successfully, one call per such step, and it carries the id of
\* the content stored by that step.
C8_VideoCallFollowsContent ==
  /\ [][ (Len(videoCalls') > Len(videoCalls)) =>
           /\ ContentSuccess
           /\ Len(contentCalls') = Len(contentCalls) - 1
           /\ videoCalls' = Append(videoCalls, generatedContent'[1].id) ]_vars
  /\ [][ ContentSuccess => Len(videoCalls') = Len(videoCalls) + 1 ]_vars

C8_Witness ==
  /\ HasContent
  /\ Len(videoCalls) = 1
  /\ videoCalls[1] = Content.id
  /\ Content.id = MaxContentId

\* C9: while isGeneratingVideo holds, videoProgress is at most 80.
C9_ProgressCeilingWhilePending ==
  isGeneratingVideo => videoProgress <= ProgressCeiling

C9_Witness ==
  /\ isGeneratingVideo
  /\ videoProgress = ProgressCeiling

\* C10: an interval callback that fires when isGeneratingVideo no longer
\* holds leaves videoProgress as it is.
C10_NoTickAfterExit ==
  [][ (Tick /\ ~isGeneratingVideo) => videoProgress' = videoProgress ]_vars

\* C11: a submit with an empty topic or an empty learner level raises the
\* validation notification and nothing else: no state variable of App
\* changes and no call to a service is made.
C11_MissingFieldOnlyNotifies ==
  [][ (generateContent /\ (formData.topic = "" \/ formData.learner_level = ""))
      => /\ toast' = "fill_fields"
         /\ UNCHANGED appState
         /\ UNCHANGED serviceVars ]_vars
C11_Witness ==
  /\ toast = "fill_fields"
  /\ formData.topic = "" \/ formData.learner_level = ""
  /\ ~isGenerating
  /\ Len(contentCalls) = 0

\* C12: when the content call fails the pipeline is Idle again
\* (isGenerating false, currentStep 0), there is still no generated content,
\* no video call has been made, and the Generate button accepts a submit.
C12_ContentFailureReturnsIdle ==
  [][ ContentFailure
      => /\ toast' = "content_failed"
         /\ ~isGenerating'
         /\ currentStep' = 0
         /\ generatedContent' = NoContent
         /\ videoCalls' = << >>
         /\ ~isGeneratingVideo'
         /\ (formData'.topic # "" /\ formData'.learner_level # ""
               => GenerateButtonEnabled') ]_vars
C12_Witness ==
  /\ toast = "content_failed"
  /\ ~isGenerating
  /\ currentStep = 0
  /\ ~HasContent
  /\ GenerateButtonEnabled

\* The percentage as the specification defines it: 100 * correct / total
\* rounded to the nearest integer, one half going up.
RoundedPercent(correct, total) == (200 * correct + total) \div (2 * total)

Score == quizScore[1]

\* C13: for a quiz of total >= 1 questions and any answer map, submitQuiz
\* stores correct = the number of questions q with answers[q.id] =
\* q.correct_answer and percentage = 100 * correct / total rounded half up.
C13_PercentageIsRoundedRatio ==
  (HasContent /\ quizScore # NoScore /\ Len(Content.quiz) >= 1)
    => /\ Score.total = Len(Content.quiz)
       /\ Score.correct = CorrectAnswers(Content.quiz, quizAnswers)
       /\ Score.percentage = RoundedPercent(Score.correct, Score.total)

\* The answers recorded through the option buttons select the correct option
\* of every question.
AllAnsweredCorrectly ==
  \A q \in 1..Len(Content.quiz) :
    /\ QuestionKey(Content.quiz[q], q - 1) \in DOMAIN quizAnswers
    /\ quizAnswers[QuestionKey(Content.quiz[q], q - 1)]
         = Content.quiz[q].correct_answer

\* C14: for a quiz of n >= 1 questions whose correct options the user has
\* all selected through the option buttons, Submit Quiz gives percentage 100
\* and a pass, and no retake is offered.
C14_AllCorrectScoresHundred ==
  (HasContent /\ showQuizResults /\ quizScore # NoScore
     /\ Len(Content.quiz) >= 1 /\ AllAnsweredCorrectly)
    => /\ Score.percentage = 100
       /\ ~canRetakeQuiz

C16_EmptyQuizScoresZero ==
  (HasContent /\ showQuizResults /\ quizScore # NoScore
     /\ Len(Content.quiz) = 0)
    => /\ Score = [correct |-> 0, total |-> 0, percentage |-> 0]
       /\ ~canRetakeQuiz

\* C17: retakeQuiz, whatever the score before, leaves the answers empty, the
\* score absent and the results hidden (which enables the option buttons);
\* the generated content, the pipeline stage, the video and the flipped
\* cards stay as they were and no service is called.
C17_RetakeClearsQuizOnly ==
  [][ retakeQuiz
      => /\ quizAnswers' = EmptyAnswers
         /\ quizScore' = NoScore
         /\ ~showQuizResults'
         /\ ~canRetakeQuiz'
         /\ UNCHANGED << generatedContent, currentStep, isGenerating,
                         isGeneratingVideo, videoUrl, videoProgress,
                         flippedCards, formData >>
         /\ UNCHANGED << serviceVars, chatCalls >> ]_vars
C17_Witness ==
  /\ toast = "quiz_reset"
  /\ HasContent
  /\ Len(Content.quiz) >= 1
  /\ quizAnswers = EmptyAnswers
  /\ quizScore = NoScore
  /\ ~showQuizResults
  /\ flippedCards # {}

\* C18: while the results are shown, up to the next retake or reset, the
\* answers do not change: an option button has no effect.
C18_AnswersFrozenWhileResultsShown ==
  [][ (showQuizResults /\ showQuizResults') => quizAnswers' = quizAnswers ]_vars
C18_Witness ==
  /\ HasContent
  /\ showQuizResults
  /\ DOMAIN quizAnswers # {}
  /\ toast = "none"

\* C19: for every card id, of the current content or not, and every set of
\* flipped cards, toggleFlashcard(id) flips the membership of id and of no
\* other id, and a second toggleFlashcard(id) gives the first set back.
C19_ToggleFlipsOneId ==
  [][ \A cardId \in CardIdPool :
        toggleFlashcard(cardId)
          => /\ \A other \in CardIdPool \cup flippedCards \cup flippedCards' :
                  (other \in flippedCards')
                    <=> (IF other = cardId THEN other \notin flippedCards
                                           ELSE other \in flippedCards)
             /\ newFlipped(flippedCards', cardId) = flippedCards ]_vars
C19_Witness ==
  /\ HasContent
  /\ flippedCards = CardIdPool
  /\ \E cardId \in flippedCards :
       \A c \in 1..Len(Content.flashcards) :
         CardKey(Content.flashcards[c], c - 1) # cardId

\* C20: sendMessage with an empty or all-blank text does nothing: the
\* messages, the loading flag and the session id stay as they are and no
\* chat call is made.
C20_BlankSendIsNoOp ==
  [][ (sendMessage /\ Trim(inputMessage) = "")
      => UNCHANGED << messages, isLoading, sessionId, chatCalls >> ]_vars
C20_Witness ==
  /\ isOpen
  /\ inputMessage = "   "
  /\ ~isLoading
  /\ Len(messages) = 1
  /\ Len(chatCalls) = 0

\* C21: a chat call that fails appends exactly one assistant message flagged
\* as error, leaves the messages that were there in place, keeps the session
\* id and clears the loading flag, so that the next send is accepted.
C21_FailedTurnAppendsOneError ==
  [][ ChatFailure
      => /\ Len(messages') = Len(messages) + 1
         /\ SubSeq(messages', 1, Len(messages)) = messages
         /\ messages'[Len(messages')].role = "assistant"
         /\ messages'[Len(messages')].error
         /\ sessionId' = sessionId
         /\ ~isLoading'
         /\ chatCalls' = << >> ]_vars
C21_Witness ==
  /\ Len(messages) >= 3
  /\ messages[Len(messages)] = ApologyMessage
  /\ messages[Len(messages) - 1].role = "user"
  /\ ~isLoading
  /\ chatCalls = << >>

\* C22: at most one chat call is outstanding: sendMessage while a call is
\* pending appends no message and makes no call, also after clearChat.
C22_OneChatCallOutstanding ==
  /\ [][ (sendMessage /\ isLoading)
         => UNCHANGED << messages, chatCalls, isLoading >> ]_vars
  /\ [](Len(chatCalls) <= 1)
  /\ [](Len(chatCalls) = 1 => isLoading)
C22_Witness ==
  /\ Len(chatCalls) = 1
  /\ isLoading
  /\ messages = << ClearedMessage >>
  /\ Trim(inputMessage) # ""

\* C23: the session id never changes while ChatBot is mounted (open, send, a
\* failed turn, clear, reset of the pipeline), and every chat call carries
\* it.
C23_SessionIdFixed ==
  /\ [][ sessionId' = sessionId ]_vars
  /\ [](\A i \in 1..Len(chatCalls) : chatCalls[i].session_id = sessionId)
C23_Witness ==
  /\ ~HasContent
  /\ formData.topic = ""
  /\ Len(chatCalls) = 1
  /\ chatCalls[1].session_id = sessionId
  /\ chatCalls[1].context # << >>
  /\ messages[1] = ClearedMessage

\* A chat turn is accepted: a user message is appended or a chat call made.
ChatTurnAccepted ==
  \/ Len(chatCalls') > Len(chatCalls)
  \/ /\ Len(messages') = Len(messages) + 1
     /\ messages'[Len(messages')].role = "user"

\* C26: no chat turn is accepted (no user message appended, no chat call
\* made) while there is no generated content.
C26_NoChatWithoutContent ==
  [][ ~HasContent => ~ChatTurnAccepted ]_vars

\* C26, amended: a chat turn is accepted with or without generated content;
\* the call made without content carries no context, and the call made with
\* content carries the topic and the learner level of that content.
C26_ChatContextFollowsContent ==
  [][ ChatTurnAccepted
      => /\ Len(chatCalls') = Len(chatCalls) + 1
         /\ LET call == chatCalls'[Len(chatCalls')]
            IN IF HasContent
                 THEN /\ call.context # << >>
                      /\ call.context[1].current_topic = Content.topic
                      /\ call.context[1].learner_level = Content.learner_level
                 ELSE call.context = << >> ]_vars
C26_Witness ==
  /\ ~HasContent
  /\ isOpen
  /\ Len(chatCalls) = 1
  /\ chatCalls[1].context = << >>
  /\ messages[Len(messages)].role = "user"

\* The stage of the pipeline, from currentStep and isGenerating.
Stage ==
  IF currentStep = 2 THEN "Ready"
  ELSE IF currentStep = 1 THEN "VideoPending"
  ELSE IF isGenerating THEN "ContentPending"
  ELSE "Idle"

derivedState == << quizAnswers, quizScore, showQuizResults, canRetakeQuiz,
                   flippedCards >>

\* C25: whenever there is generated content, the option buttons and the
\* flashcards can be clicked and the Submit Quiz button is rendered once
\* every question is answered, whether the video call is pending, has
\* succeeded or has failed, and the outcome of the video call changes
\* neither the answers, nor the score, nor the flipped cards.
C25_QuizIndependentOfVideo ==
  /\ [][ (VideoSuccess \/ VideoFailure) => UNCHANGED derivedState ]_vars
  /\ [](HasContent =>
          /\ ENABLED clickFlashcard
          /\ (~showQuizResults /\ Len(Content.quiz) > 0) => ENABLED clickOption
          /\ (/\ ~showQuizResults
              /\ Len(Content.quiz) > 0
              /\ \A q \in 1..Len(Content.quiz) :
                   QuestionKey(Content.quiz[q], q - 1) \in DOMAIN quizAnswers)
               => SubmitQuizEnabled)
C25_Witness ==
  /\ HasContent
  /\ isGeneratingVideo
  /\ Len(videoCalls) = 1
  /\ showQuizResults
  /\ quizScore # NoScore
  /\ flippedCards # {}

\* C27: the stage changes only from Idle to ContentPending (submit), from
\* ContentPending to VideoPending (content success) or to Idle (content
\* failure), from VideoPending to Ready (video success or failure) and from
\* any stage to Idle (reset); in Ready there is generated content.
C27_StageTransitions ==
  /\ [][ Stage' # Stage
         => \/ Stage = "Idle" /\ Stage' = "ContentPending" /\ generateContent
            \/ /\ Stage = "ContentPending"
               /\ Stage' = "VideoPending"
               /\ ContentSuccess
            \/ Stage = "ContentPending" /\ Stage' = "Idle" /\ ContentFailure
            \/ /\ Stage = "VideoPending"
               /\ Stage' = "Ready"
               /\ (VideoSuccess \/ VideoFailure)
            \/ Stage' = "Idle" /\ resetApp ]_vars
  /\ [][ resetApp => Stage' = "Idle" ]_vars
  /\ [](Stage = "Ready" => HasContent)

\* C28: videoProgress goes above 80 only when the video call resolves; then
\* the object URL is stored, videoProgress is 100 and currentStep is 2; a
\* failed video call never brings videoProgress to 100.
C28_ProgressCompletesOnlyOnSuccess ==
  /\ [][ (videoProgress' > ProgressCeiling /\ videoProgress' # videoProgress)
         => VideoSuccess ]_vars
  /\ [][ VideoSuccess
         => /\ videoUrl' # NoUrl
            /\ videoProgress' = ProgressDone
            /\ currentStep' = 2 ]_vars
  /\ [][ VideoFailure => videoProgress' <= ProgressCeiling ]_vars
  /\ [](videoProgress > ProgressCeiling => videoUrl # NoUrl)
C28_Witness ==
  /\ currentStep = 2
  /\ videoUrl = NoUrl
  /\ toast = "video_warning"
  /\ videoProgress = ProgressCeiling
  /\ \E u \in DOMAIN revokes : revokes[u] = 1

\* C29: every entry into VideoPending starts with videoProgress = 0.
C29_VideoPendingStartsAtZero ==
  [][ (Stage # "VideoPending" /\ Stage' = "VideoPending")
      => videoProgress' = 0 ]_vars

\* C29, amended: every entry into VideoPending starts with videoProgress =
\* 20, whatever value the progress had reached in an earlier attempt.
C29_VideoPendingStartsAtTwenty ==
  [][ (Stage # "VideoPending" /\ Stage' = "VideoPending")
      => (ContentSuccess /\ isGeneratingVideo' /\ videoProgress' = 20) ]_vars
C29_Witness ==
  /\ Stage = "VideoPending"
  /\ toast = "content_ready"
  /\ videoProgress = 20
  /\ \E u \in DOMAIN revokes : revokes[u] = 1

\* C30: at every moment a new generated content is stored the quiz answers
\* are empty, there is no score, the results are hidden and no card is
\* flipped: nothing carries over from one content to the next.
C30_DerivedStateNotCarriedOver ==
  /\ [][ (generatedContent' # generatedContent /\ HasContent')
         => /\ quizAnswers' = EmptyAnswers
            /\ quizScore' = NoScore
            /\ ~showQuizResults'
            /\ flippedCards' = {} ]_vars
  /\ [](~HasContent => derivedState = << EmptyAnswers, NoScore, FALSE, FALSE, {} >>)
C30_Witness ==
  /\ HasContent
  /\ toast = "content_ready"
  /\ quizAnswers = EmptyAnswers
  /\ flippedCards = {}
  /\ \E u \in DOMAIN revokes : revokes[u] = 1

\* C24: if every outstanding service call is eventually answered, every
\* accepted submit eventually leaves ContentPending and VideoPending: the
\* stage becomes Ready or Idle, and isGenerating and isGeneratingVideo
\* become false.
C24_PipelineEventuallySettles ==
  /\ isGenerating ~> ~isGenerating
  /\ isGeneratingVideo ~> ~isGeneratingVideo
  /\ (Stage \in {"ContentPending", "VideoPending"})
       ~> (Stage \in {"Ready", "Idle"})
C24_Witness ==
  /\ Stage = "Ready"
  /\ HasContent
  /\ ~isGenerating
  /\ ~isGeneratingVideo
  /\ videoCalls = << >>
  /\ toast = "video_warning"

\* C31: the Submit Quiz button is there only when results are not shown and
\* the answers hold an entry for every question of the quiz: the comparison
\* of the two counts never lets it appear while a question is unanswered.
C31_SubmitOnlyWhenAllAnswered ==
  SubmitQuizEnabled
    => /\ ~showQuizResults
       /\ \A q \in 1..Len(Content.quiz) :
            QuestionKey(Content.quiz[q], q - 1) \in DOMAIN quizAnswers
C31_Witness ==
  /\ SubmitQuizEnabled
  /\ Len(Content.quiz) = MaxQuestions
  /\ Cardinality(DOMAIN quizAnswers) = MaxQuestions

\* C37: a score is present exactly when the results are shown, and a retake
\* is offered only when the results are shown and the stored percentage is
\* below 70.
C37_ScoreIffResultsShown ==
  /\ (quizScore # NoScore) <=> showQuizResults
  /\ canRetakeQuiz
       => /\ showQuizResults
          /\ Score.percentage # NaN
          /\ Score.percentage < PassThreshold
C37_Witness ==
  /\ showQuizResults
  /\ canRetakeQuiz
  /\ Score.correct = 2
  /\ Score.percentage = 67

IsPrefix(s, t) == Len(s) <= Len(t) /\ SubSeq(t, 1, Len(s)) = s

\* C32: every chat step other than clearChat (open, send, a reply, a failed
\* call, a change of the topic by resetApp) only appends to the messages:
\* the messages before the step are a prefix of the messages after it.
C32_AppendOnlyApartFromClear ==
  [][ ~clearChat => IsPrefix(messages, messages') ]_vars
C32_Witness ==
  /\ Len(messages) = 3
  /\ messages[1] = WelcomeMessage
  /\ messages[2].role = "user"
  /\ messages[3] = ApologyMessage
  /\ ~HasContent

\* C33: right after clearChat the messages are exactly one assistant welcome
\* message without error flag; sessionId and isLoading are unchanged.
C33_ClearLeavesOneWelcome ==
  [][ clearChat => /\ Len(messages') = 1
                   /\ messages'[1].role = "assistant"
                   /\ messages'[1].content \in {"welcome", "cleared"}
                   /\ ~messages'[1].error
                   /\ sessionId' = sessionId
                   /\ isLoading' = isLoading ]_vars
C33_Witness ==
  /\ messages = << ClearedMessage >>
  /\ isLoading
  /\ Len(chatCalls) = 1
  /\ chatCalls[1].session_id = sessionId

\* C38: no reply and no apology of a turn sent before clearChat is appended
\* to the new conversation: every assistant message other than the welcome
\* message comes right after the user message it answers.
C38_NoReplyWithoutItsQuestion ==
  \A i \in 1..Len(messages) :
    (messages[i].role = "assistant"
       /\ messages[i].content \notin {"welcome", "cleared"})
      => /\ i > 1
         /\ messages[i - 1].role = "user"

\* C34: an accepted send appends the user message as the chat call is made,
\* and is followed by the end of the call, which appends exactly one
\* assistant message after that user message and clears isLoading.
C34_SendIsAnswered ==
  /\ [][ ChatTurnAccepted
           => /\ messages' = Append(messages,
                                    [role |-> "user",
                                     content |-> Trim(inputMessage),
                                     error |-> FALSE])
              /\ Len(chatCalls') = Len(chatCalls) + 1
              /\ chatCalls'[Len(chatCalls')].message = Trim(inputMessage)
              /\ isLoading' ]_vars
  /\ [][ Len(chatCalls') < Len(chatCalls)
           => /\ Len(messages') = Len(messages) + 1
              /\ IsPrefix(messages, messages')
              /\ messages'[Len(messages')].role = "assistant"
              /\ messages[Len(messages)] =
                   [role |-> "user", content |-> chatCalls[1].message,
                    error |-> FALSE]
              /\ ~isLoading' ]_vars
  /\ (Len(chatCalls) > 0) ~> (Len(chatCalls) = 0 /\ ~isLoading)

\* C35: a video asset is held only together with generated content, and it
\* is the asset of the video call made for that content's id: an asset is
\* stored only from the response to the call made for the content present,
\* and none is held when a content is stored.
C35_VideoBelongsToContent ==
  /\ [](videoUrl # NoUrl => HasContent)
  /\ [][ (videoUrl' # videoUrl /\ videoUrl' # NoUrl)
           => /\ HasContent
              /\ \E i \in 1..Len(videoCalls) :
                   /\ videoCalls[i] = Content.id
                   /\ videoCalls' = RemoveAt(videoCalls, i) ]_vars
  /\ [][ (generatedContent' # generatedContent
            /\ generatedContent' # NoContent)
           => videoUrl' = NoUrl ]_vars

\* C36: isGenerating is true exactly when a content call or a video call is
\* outstanding, also after a reset made while the video call is pending.
C36_GeneratingIffCallOutstanding ==
  isGenerating <=> (Len(contentCalls) > 0 \/ Len(videoCalls) > 0)
C36_Witness ==
  /\ isGenerating
  /\ ~HasContent
  /\ Len(contentCalls) = 0
  /\ Len(videoCalls) = 1

====
